---- MODULE Spec2Model ----
(***************************************************************************)
(* A model of ring's constant-time software AES counter-mode driver        *)
(* (src/aead/aes/aes_nohw.rs) and of its GHASH context (src/aead/gcm.rs).  *)
(*                                                                         *)
(* Two specifications share the module:                                    *)
(*   SpecCtr  - ctr32_encrypt_within, one action per code region           *)
(*   SpecGcm  - Key::new, Context::new, update_block(s), pre_finish        *)
(*                                                                         *)
(* Cipher and field arithmetic are kept symbolic (free terms): AES_K(x)    *)
(* is the term <<"AES", K, x>>, a product by the hash subkey H is the term *)
(* <<"mul", x, H>>.  Equal terms denote equal values.  Everything that the *)
(* Rust code itself computes (counter arithmetic, byte order, slicing,     *)
(* padding, dispatch) is computed, with the widths the code has.           *)
(***************************************************************************)
EXTENDS Integers, Sequences, FiniteSets, TLC

VARIABLES
    \* ---- the build ----------------------------------------------------
    profile,        \* "debug": overflow checks and debug assertions on
    word_size,      \* size_of::<constant_time::Word>() of the target
    \* ---- ctr32_encrypt_within: the caller's objects --------------------
    key,            \* the AES_KEY (an id and its round count)
    buf,            \* the caller's whole buffer, one cell per byte
    src,            \* src.start, the offset of the input in in_out
    counter,        \* the caller's Counter, 16 bytes
    total,          \* number of whole blocks in the buffer
    start,          \* the Counter the caller began with
    split,          \* the first call covers blocks [0,split), the second the rest
    phase,          \* 0: no call yet, 1: in/after the first call, 2: the second
    \* ---- ctr32_encrypt_within: the frame of the running call -----------
    pc,             \* "idle" | "loop" | "done" | "panic"
    lo, hi,         \* in_out is buf[lo .. hi)
    initial_ctr,    \* the local initial_ctr (16 bytes)
    ctr,            \* the local u32 ctr
    \* ---- ctr32_encrypt_within: history (not program state) -------------
    entry,          \* Counter, buffer and block count when the call began
    batches,        \* one record per Batch::encrypt of the running call
    incs,           \* number of Counter advances made by the running call
    why,            \* reason of a panic
    \* ---- GHASH ---------------------------------------------------------
    target_arch,    \* the cfg(target_arch) of the build
    gkey,           \* the gcm::Key (its HTable), or NoKey
    ctx,            \* the gcm::Context, or NoCtx
    gpc,            \* "nokey" | "keyed" | "updating" | "finalized" | "err"
    aad,            \* the associated data given to Context::new
    hashed,         \* number of ciphertext blocks already passed to updates
    updates,        \* history: every hash update made against ctx
    last,           \* history: the last update_blocks call and its pre-state
    f_calls         \* history: the calls of pre_finish's function

ctrVars == <<key, buf, src, counter, start, total, split, phase, pc, lo, hi,
             initial_ctr, ctr, entry, batches, incs, why>>
gcmVars == <<target_arch, gkey, ctx, gpc, aad, hashed, updates, last, f_calls>>
vars == <<profile, word_size, ctrVars, gcmVars>>

(***************************************************************************)
(* Bounds of the model.                                                    *)
(***************************************************************************)
MaxBlocks == 9          \* blocks in one buffer: below, at and above 2 batches
MaxAadLen == 18         \* associated data bytes: empty, partial, whole, both
MaxHashed == 3          \* ciphertext blocks hashed before pre_finish

(***************************************************************************)
(* Shared helpers: bytes, blocks, fixed-width integers.                    *)
(***************************************************************************)
BLOCK_LEN == 16

Min(a, b) == IF a <= b THEN a ELSE b

\* A u32 is kept as two 16-bit limbs, so that values next to 2^32 are exact.
LIMB == 256 * 256

u32_from_be_bytes(b) == [h |-> b[1] * 256 + b[2], l |-> b[3] * 256 + b[4]]

u32_to_be_bytes(x) == <<x.h \div 256, x.h % 256, x.l \div 256, x.l % 256>>

\* The exact sum x + n (n < 2^16) and whether it leaves the u32 range.
U32Sum(x, n) ==
    LET l == x.l + n
        h == x.h + (l \div LIMB)
    IN  [over |-> h >= LIMB, val |-> [h |-> h % LIMB, l |-> l % LIMB]]

OverflowChecks == profile = "debug"
DebugAssertions == profile = "debug"

\* Rust's `a + b` on u32: a panic under overflow checks, two's-complement
\* wrapping otherwise.
U32Add(x, n) ==
    LET s == U32Sum(x, n)
    IN  [panic |-> s.over /\ OverflowChecks, val |-> s.val]

(***************************************************************************)
(* aes_nohw.rs                                                             *)
(***************************************************************************)
WORD_SIZE == word_size
BATCH_SIZE == WORD_SIZE \div 2
BATCH_SIZE_U32 == BATCH_SIZE

\* The block cipher itself (aes_nohw_encrypt_batch and the bitslice
\* conversions around it are C): lane i of a batch is AES_K of input i,
\* whatever the other lanes hold.
AES(k, block) == <<"AES", k.id, k.rounds, block>>

\* Batch::from_bytes: at most BATCH_SIZE lanes, lane i set from input i.
Batch_from_bytes(input) == [w |-> input]

\* Batch::encrypt: asserts out.len() <= BATCH_SIZE, then writes out.len()
\* encrypted lanes.
Batch_encrypt(batch, k, outLen) ==
    IF outLen > BATCH_SIZE
    THEN [panic |-> TRUE, out |-> <<>>]
    ELSE [panic |-> FALSE,
          out |-> [i \in 1..outLen |-> AES(k, batch.w[i])]]

\* A buffer cell is <<i, x1, .., xn>>: the byte the caller put at position i,
\* xored with x1 .. xn, each byte `at` of a keystream block `ks`.
PlainCell(i) == <<i>>

XorCell(cell, ks, at) == Append(cell, [ks |-> ks, at |-> at])

\* constant_time::xor_within_chunked_at_start(in_out, src, chunks): chunk i
\* is xored with in_out[src + 16 i ..][..16] and stored at in_out[16 i ..],
\* in increasing i, over the buffer as the previous chunk left it.
RECURSIVE xor_within_chunked_at_start(_, _, _, _, _)
xor_within_chunked_at_start(b, base, s, chunks, i) ==
    IF i > Len(chunks) THEN b
    ELSE LET from == base + BLOCK_LEN * (i - 1)
             nb == [p \in 1..Len(b) |->
                      IF p > from /\ p <= from + BLOCK_LEN
                      THEN XorCell(b[p + s], chunks[i], p - from)
                      ELSE b[p]]
         IN  xor_within_chunked_at_start(nb, base, s, chunks, i + 1)

\* Counter::increment_by_less_safe: the low 32 bits, big-endian, advance by
\* n and wrap; the upper 96 bits stay.
increment_by_less_safe(c, n) ==
    LET v == U32Sum(u32_from_be_bytes(SubSeq(c, 13, 16)), n).val
    IN  SubSeq(c, 1, 12) \o u32_to_be_bytes(v)

\* polyfill::slice::as_chunks(&in_out[src..]) for in_out = buf[lo..hi):
\* the slice panics when src.start exceeds the length.
SliceOk(len, s) == s <= len
Chunks(len, s) == (len - s) \div BLOCK_LEN
Leftover(len, s) == (len - s) % BLOCK_LEN

\* Lines 165-167: every lane of ivs gets initial_ctr with its last four
\* bytes replaced by be(ctr + i), i = 0 .. BATCH_SIZE-1.
LaneSum(c, i) == U32Add(c, i)

FillIvs(ic, c) ==
    [panic |-> \E i \in 0..(BATCH_SIZE - 1) : LaneSum(c, i).panic,
     ivs |-> [i \in 1..BATCH_SIZE |->
                SubSeq(ic, 1, 12) \o u32_to_be_bytes(LaneSum(c, i - 1).val)]]

\* Line 181: ctr += BATCH_SIZE_U32.
NextCtr(c) == U32Add(c, BATCH_SIZE_U32)

\* Lines 156-157: initial_ctr is read, then the caller's Counter advances.
EntryCountersReadAfterAdvance(c, n) ==
    [initial_ctr |-> increment_by_less_safe(c, n),
     counter |-> increment_by_less_safe(c, n)]

EntryCounters(c, n) ==
    [initial_ctr |-> c, counter |-> increment_by_less_safe(c, n)]

\* The running call as one value: the caller's buffer and Counter, the
\* locals, and the history.
Frame ==
    [pc |-> pc, why |-> why, buf |-> buf, counter |-> counter, lo |-> lo,
     hi |-> hi, initial_ctr |-> initial_ctr, ctr |-> ctr, entry |-> entry,
     batches |-> batches, incs |-> incs]

Panicked(f, reason) == [f EXCEPT !.pc = "panic", !.why = reason]

\* ctr32_encrypt_within, lines 146-162: from the call to the loop's head,
\* for in_out = b[newLo .. newHi) and Counter c.
EnterOp(b, c, newLo, newHi) ==
    LET len == newHi - newLo
        n == Chunks(len, src)
        f0 == [pc |-> "idle", why |-> "", buf |-> b, counter |-> c,
               lo |-> newLo, hi |-> newHi, initial_ctr |-> <<>>,
               ctr |-> [h |-> 0, l |-> 0],
               entry |-> [counter |-> c, buf |-> b, blocks |-> n, lo |-> newLo],
               batches |-> <<>>, incs |-> 0]
        ec == EntryCounters(c, n)
    IN  IF ~SliceOk(len, src) THEN Panicked(f0, "slice")
        ELSE IF DebugAssertions /\ Leftover(len, src) # 0
        THEN Panicked(f0, "leftover")
        ELSE IF n = 0 THEN [f0 EXCEPT !.pc = "done"]
        ELSE [f0 EXCEPT !.pc = "loop",
                        !.initial_ctr = ec.initial_ctr,
                        !.counter = ec.counter,
                        !.incs = 1,
                        !.ctr = u32_from_be_bytes(SubSeq(ec.initial_ctr, 13, 16))]

\* ctr32_encrypt_within, lines 164-182: one iteration of the batching loop.
BatchOp(f) ==
    LET iv == FillIvs(f.initial_ctr, f.ctr)
        len == f.hi - f.lo
        todo == Min(BATCH_SIZE, Chunks(len, src))
        e == Batch_encrypt(Batch_from_bytes(SubSeq(iv.ivs, 1, todo)), key, todo)
        nc == NextCtr(f.ctr)
        g == [f EXCEPT
                !.buf = xor_within_chunked_at_start(f.buf, f.lo, src, e.out, 1),
                !.batches = Append(f.batches,
                              [todo |-> todo, ivs |-> iv.ivs, lo |-> f.lo,
                               counter |-> f.counter])]
    IN  IF iv.panic THEN Panicked(f, "overflow")
        ELSE IF ~SliceOk(len, src) THEN Panicked(f, "slice")
        ELSE IF DebugAssertions /\ Leftover(len, src) # 0
        THEN Panicked(f, "leftover")
        ELSE IF e.panic THEN Panicked(f, "assert")
        ELSE IF todo < BATCH_SIZE THEN [g EXCEPT !.pc = "done"]
        ELSE IF BLOCK_LEN * BATCH_SIZE > len THEN Panicked(g, "slice")
        ELSE IF nc.panic
        THEN Panicked([g EXCEPT !.lo = f.lo + BLOCK_LEN * BATCH_SIZE], "overflow")
        ELSE [g EXCEPT !.lo = f.lo + BLOCK_LEN * BATCH_SIZE, !.ctr = nc.val]

\* The whole of one call.
RECURSIVE RunLoop(_)
RunLoop(f) == IF f.pc = "loop" THEN RunLoop(BatchOp(f)) ELSE f

ctr32_encrypt_within(b, c, newLo, newHi) == RunLoop(EnterOp(b, c, newLo, newHi))

Store(f) ==
    /\ pc' = f.pc
    /\ why' = f.why
    /\ buf' = f.buf
    /\ counter' = f.counter
    /\ lo' = f.lo
    /\ hi' = f.hi
    /\ initial_ctr' = f.initial_ctr
    /\ ctr' = f.ctr
    /\ entry' = f.entry
    /\ batches' = f.batches
    /\ incs' = f.incs

\* The caller's first call takes buf[0 .. src + 16 split); the second takes
\* what follows the first call's output, with the Counter the first left.
Enter ==
    /\ \/ /\ phase = 0 /\ pc = "idle"
          /\ Store(EnterOp(buf, counter, 0, src + BLOCK_LEN * split))
          /\ phase' = 1
       \/ /\ phase = 1 /\ pc = "done"
          /\ Store(EnterOp(buf, counter, BLOCK_LEN * split, Len(buf)))
          /\ phase' = 2
    /\ UNCHANGED <<key, src, start, total, split>>
    /\ UNCHANGED <<profile, word_size, gcmVars>>

Batch ==
    /\ pc = "loop"
    /\ Store(BatchOp(Frame))
    /\ UNCHANGED <<key, src, start, total, split, phase>>
    /\ UNCHANGED <<profile, word_size, gcmVars>>

(***************************************************************************)
(* gcm.rs                                                                  *)
(***************************************************************************)
ZERO_BLOCK == [i \in 1..BLOCK_LEN |-> 0]

\* A u64 (and a usize) is kept as four 16-bit limbs, most significant
\* first.
U64FromNat(n) == <<0, 0, n \div LIMB, n % LIMB>>

U64Gt(x, y) ==
    \E i \in 1..4 : x[i] > y[i] /\ \A j \in 1..(i - 1) : x[j] = y[j]

U64Inc(x) ==
    LET d == x[4] + 1
        c == x[3] + (d \div LIMB)
        b == x[2] + (c \div LIMB)
        a == x[1] + (b \div LIMB)
    IN  <<a % LIMB, b % LIMB, c % LIMB, d % LIMB>>

PointerWidth == IF target_arch \in {"x86", "arm"} THEN 32 ELSE 64

USIZE_MAX ==
    IF PointerWidth = 32 THEN <<0, 0, LIMB - 1, LIMB - 1>>
    ELSE <<LIMB - 1, LIMB - 1, LIMB - 1, LIMB - 1>>

\* aes_gcm::MAX_IN_OUT_LEN: (2^32 - 2) blocks of 16 bytes, saturated to
\* usize.
MAX_IN_OUT_LEN ==
    IF PointerWidth = 32 THEN USIZE_MAX ELSE <<0, 15, LIMB - 1, LIMB - 32>>

\* BitLength::<u64>::from_byte_len: eight times the byte length, or the
\* error when that does not fit 64 bits.
BitLength_from_byte_len(len) ==
    LET d == len[4] * 8
        c == len[3] * 8 + (d \div LIMB)
        b == len[2] * 8 + (c \div LIMB)
        a == len[1] * 8 + (b \div LIMB)
    IN  [err |-> a >= LIMB,
         bits |-> <<a % LIMB, b % LIMB, c % LIMB, d % LIMB>>]

\* BitLength::to_be_bytes: the eight bytes of the bit count, big-endian.
BitLength_to_be_bytes(x) ==
    [i \in 1..8 |-> IF i % 2 = 1 THEN x[(i + 1) \div 2] \div 256
                    ELSE x[i \div 2] % 256]

available(feature, cpu_features) == feature \in cpu_features

has_avx_movbe(cpu_features) ==
    available("AVX", cpu_features) /\ available("MOVBE", cpu_features)

IsArm == target_arch \in {"aarch64", "arm"}
IsIntel == target_arch \in {"x86_64", "x86"}

detect_implementation(cpu_features) ==
    IF IsArm /\ available("PMULL", cpu_features) THEN "CLMUL"
    ELSE IF IsIntel /\ available("FXSR", cpu_features)
                    /\ available("PCLMULQDQ", cpu_features) THEN "CLMUL"
    ELSE IF IsArm /\ available("NEON", cpu_features) THEN "NEON"
    ELSE "Fallback"

\* The routine each dispatch site calls.
KeyNewRoutine(cpu_features) ==
    LET impl == detect_implementation(cpu_features)
    IN  IF target_arch = "x86_64" /\ impl = "CLMUL" /\ has_avx_movbe(cpu_features)
        THEN "gcm_init_avx"
        ELSE IF impl = "CLMUL" THEN "gcm_init_clmul"
        ELSE IF impl = "NEON" THEN "gcm_init_neon"
        ELSE "gcm_nohw::init"

UpdateBlocksRoutine(cpu_features) ==
    LET impl == detect_implementation(cpu_features)
    IN  IF target_arch = "x86_64" /\ impl = "CLMUL" /\ has_avx_movbe(cpu_features)
        THEN "gcm_ghash_avx"
        ELSE IF impl = "CLMUL" THEN "gcm_ghash_clmul"
        ELSE IF impl = "NEON" THEN "gcm_ghash_neon"
        ELSE "gcm_nohw::ghash"

UpdateBlockRoutine(cpu_features) ==
    LET impl == detect_implementation(cpu_features)
    IN  IF impl = "CLMUL" THEN "gcm_gmult_clmul"
        ELSE IF impl = "NEON" THEN "gcm_gmult_neon"
        ELSE "gcm_nohw::gmult"

\* The backend (Implementation variant) a native routine belongs to; the
\* AVX routines are the wider variant of the carry-less-multiply backend.
Backend(routine) ==
    IF routine \in {"gcm_init_avx", "gcm_ghash_avx", "gcm_init_clmul",
                    "gcm_ghash_clmul", "gcm_gmult_clmul"} THEN "CLMUL"
    ELSE IF routine \in {"gcm_init_neon", "gcm_ghash_neon", "gcm_gmult_neon"}
    THEN "NEON"
    ELSE "Fallback"

\* constant_time::xor on two blocks.
RECURSIVE BitXor(_, _)
BitXor(a, b) ==
    IF a = 0 THEN b
    ELSE IF b = 0 THEN a
    ELSE 2 * BitXor(a \div 2, b \div 2) + ((a + b) % 2)

\* Xi ^= a.  An accumulator is a block of bytes, or the term of a product.
bitxor_assign(xi, a) ==
    IF xi.k = "block"
    THEN [k |-> "block", v |-> [i \in 1..BLOCK_LEN |-> BitXor(xi.v[i], a[i])]]
    ELSE [k |-> "xor", x |-> xi, a |-> a]

\* What a multiply routine leaves in Xi when the table it is handed was
\* laid out by another backend: not H times anything, and not determined.
Junk == {[k |-> "junk", n |-> 0], [k |-> "junk", n |-> 1]}

Mul(x, h) == [k |-> "mul", x |-> x, h |-> h]

\* gcm_gmult_*: Xi := Xi * H.
Gmult(routine, table, xi) ==
    IF Backend(routine) = Backend(table.init)
    THEN {Mul(xi, table.h)}
    ELSE Junk

\* gcm_ghash_*: for each block in turn, Xi := (Xi ^ block) * H.
RECURSIVE GhashFold(_, _, _, _)
GhashFold(xi, h, blocks, i) ==
    IF i > Len(blocks) THEN xi
    ELSE GhashFold(Mul(bitxor_assign(xi, blocks[i]), h), h, blocks, i + 1)

Ghash(routine, table, xi, blocks) ==
    IF Backend(routine) = Backend(table.init)
    THEN {GhashFold(xi, table.h, blocks, 1)}
    ELSE Junk

\* Key::new.
Key_new(h_be, cpu_features) ==
    [h_table |-> [init |-> KeyNewRoutine(cpu_features),
                  h |-> <<SubSeq(h_be, 1, 8), SubSeq(h_be, 9, 16)>>]]

Upd(op, blocks, routine, c) ==
    [op |-> op, blocks |-> blocks, routine |-> routine,
     table |-> c.Htable.init]

\* Context::update_block on context c: the contexts it may leave.
update_block(c, a) ==
    LET r == UpdateBlockRoutine(c.cpu_features)
    IN  {[c EXCEPT !.Xi = y] :
            y \in Gmult(r, c.Htable, bitxor_assign(c.Xi, a))}

\* Context::update_blocks.
update_blocks(c, input) ==
    LET r == UpdateBlocksRoutine(c.cpu_features)
    IN  {[c EXCEPT !.Xi = y] : y \in Ghash(r, c.Htable, c.Xi, input)}

\* update_block over a run of blocks, one call each.
RECURSIVE update_block_each(_, _, _)
update_block_each(cs, blocks, i) ==
    IF i > Len(blocks) THEN cs
    ELSE update_block_each(UNION {update_block(c, blocks[i]) : c \in cs},
                           blocks, i + 1)

\* aad.0.chunks(BLOCK_LEN)
AadChunksExact(bytes) ==
    [i \in 1..(Len(bytes) \div BLOCK_LEN) |->
        SubSeq(bytes, BLOCK_LEN * (i - 1) + 1, BLOCK_LEN * i)]

AadChunks(bytes) ==
    [i \in 1..((Len(bytes) + BLOCK_LEN - 1) \div BLOCK_LEN) |->
        SubSeq(bytes, BLOCK_LEN * (i - 1) + 1,
               Min(BLOCK_LEN * i, Len(bytes)))]

\* polyfill::sliceutil::overwrite_at_start
overwrite_at_start(block, ad) ==
    [i \in 1..Len(block) |-> IF i <= Len(ad) THEN ad[i] ELSE block[i]]

AadBlocks(bytes) ==
    LET ch == AadChunks(bytes)
    IN  [i \in 1..Len(ch) |-> overwrite_at_start(ZERO_BLOCK, ch[i])]

\* Line 104.
ExceedsMaxOrEqual(in_out_len) == ~U64Gt(MAX_IN_OUT_LEN, in_out_len)

ExceedsMax(in_out_len) == U64Gt(in_out_len, MAX_IN_OUT_LEN)

\* Context::new: the error, or the contexts it may return.
Context_new(k, a, in_out_len, cpu_features) ==
    LET al == BitLength_from_byte_len(a.len)
        il == BitLength_from_byte_len(in_out_len)
        c0 == [Xi |-> [k |-> "block", v |-> ZERO_BLOCK],
               Htable |-> k.h_table,
               aad_len |-> al.bits,
               in_out_len |-> il.bits,
               cpu_features |-> cpu_features]
    IN  IF ExceedsMax(in_out_len) \/ al.err \/ il.err
        THEN [err |-> TRUE, ctxs |-> {}, fed |-> <<>>]
        ELSE [err |-> FALSE,
              ctxs |-> update_block_each({c0}, AadBlocks(a.bytes), 1),
              fed |-> AadBlocks(a.bytes)]

\* Lines 249-251: [aad_len, in_out_len].map(to_be_bytes).array_flatten()
LengthBlockSwapped(c) ==
    BitLength_to_be_bytes(c.in_out_len) \o BitLength_to_be_bytes(c.aad_len)

LengthBlock(c) ==
    BitLength_to_be_bytes(c.aad_len) \o BitLength_to_be_bytes(c.in_out_len)

\* ---- the inputs the model draws --------------------------------------
Archs == {"x86_64", "x86", "aarch64", "arm", "other"}

Snapshots ==
    IF target_arch = "x86_64"
    THEN {{}, {"FXSR", "PCLMULQDQ"}, {"FXSR", "PCLMULQDQ", "AVX"},
          {"FXSR", "PCLMULQDQ", "AVX", "MOVBE"}, {"PCLMULQDQ", "AVX", "MOVBE"}}
    ELSE IF target_arch = "x86"
    THEN {{}, {"FXSR"}, {"FXSR", "PCLMULQDQ"}}
    ELSE IF IsArm
    THEN {{}, {"NEON"}, {"PMULL"}, {"PMULL", "NEON"}}
    ELSE {{}}

Subkeys == {[i \in 1..BLOCK_LEN |-> 16 * i + 1]}

\* Associated data: every length up to MaxAadLen with byte i holding i, and
\* (where a slice can be that long) one of 2^61 bytes, whose bit length
\* does not fit 64 bits; Context::new returns before reading its bytes.
AadInputs ==
    {[len |-> U64FromNat(n), bytes |-> [i \in 1..n |-> i]] : n \in 0..MaxAadLen}
    \cup (IF PointerWidth = 64
          THEN {[len |-> <<8192, 0, 0, 0>>, bytes |-> <<>>]} ELSE {})

InOutLens ==
    {U64FromNat(BLOCK_LEN), MAX_IN_OUT_LEN}
    \cup (IF PointerWidth = 64 THEN {U64Inc(MAX_IN_OUT_LEN)} ELSE {})

\* The ciphertext is a stream of distinct blocks; block n holds bytes
\* 16 n + 1 .. 16 n + 16 (mod 256).
CipherBlock(n) == [i \in 1..BLOCK_LEN |-> (BLOCK_LEN * n + 100 + i) % 256]

NoKey == [h_table |-> [init |-> "none", h |-> <<>>]]
NoCtx == [Xi |-> [k |-> "none"], Htable |-> NoKey.h_table, aad_len |-> <<>>,
          in_out_len |-> <<>>, cpu_features |-> {}]
NoAad == [len |-> <<>>, bytes |-> <<>>]
NoLast == [op |-> "none", pre |-> NoCtx, blocks |-> <<>>, n |-> 0]

\* ---- actions ---------------------------------------------------------
KeyNew ==
    /\ gpc = "nokey"
    /\ \E h \in Subkeys, f \in Snapshots :
          gkey' = Key_new(h, f)
    /\ gpc' = "keyed"
    /\ UNCHANGED <<target_arch, ctx, aad, hashed, updates, last, f_calls>>
    /\ UNCHANGED <<profile, word_size, ctrVars>>

ContextNew ==
    /\ gpc = "keyed"
    /\ \E a \in AadInputs, n \in InOutLens, f \in Snapshots :
          LET r == Context_new(gkey, a, n, f)
          IN  /\ aad' = [len |-> a.len, bytes |-> a.bytes, in_out_len |-> n]
              /\ IF r.err
                 THEN /\ gpc' = "err"
                      /\ UNCHANGED <<ctx, updates>>
                 ELSE /\ gpc' = "updating"
                      /\ ctx' \in r.ctxs
                      /\ updates' =
                           [i \in 1..Len(r.fed) |->
                              Upd("update_block", <<r.fed[i]>>,
                                  UpdateBlockRoutine(f), [Htable |-> gkey.h_table])]
    /\ UNCHANGED <<target_arch, gkey, hashed, last, f_calls>>
    /\ UNCHANGED <<profile, word_size, ctrVars>>

UpdateBlock ==
    /\ gpc = "updating"
    /\ hashed < MaxHashed
    /\ LET a == CipherBlock(hashed + 1)
       IN  /\ ctx' \in update_block(ctx, a)
           /\ updates' = Append(updates,
                 Upd("update_block", <<a>>,
                     UpdateBlockRoutine(ctx.cpu_features), ctx))
           /\ last' = [op |-> "update_block", pre |-> ctx, blocks |-> <<a>>,
                      n |-> Len(updates)]
    /\ hashed' = hashed + 1
    /\ UNCHANGED <<target_arch, gkey, gpc, aad, f_calls>>
    /\ UNCHANGED <<profile, word_size, ctrVars>>

UpdateBlocks ==
    /\ gpc = "updating"
    /\ \E n \in 1..(MaxHashed - hashed) :
          LET input == [i \in 1..n |-> CipherBlock(hashed + i)]
          IN  /\ ctx' \in update_blocks(ctx, input)
              /\ updates' = Append(updates,
                    Upd("update_blocks", input,
                        UpdateBlocksRoutine(ctx.cpu_features), ctx))
              /\ last' = [op |-> "update_blocks", pre |-> ctx, blocks |-> input,
                         n |-> Len(updates)]
              /\ hashed' = hashed + n
    /\ UNCHANGED <<target_arch, gkey, gpc, aad, f_calls>>
    /\ UNCHANGED <<profile, word_size, ctrVars>>

\* Context::pre_finish(f): one more update_block, then f(Xi, cpu_features).
PreFinish ==
    /\ gpc = "updating"
    /\ LET a == LengthBlock(ctx)
       IN  /\ ctx' \in update_block(ctx, a)
           /\ updates' = Append(updates,
                 Upd("update_block", <<a>>,
                     UpdateBlockRoutine(ctx.cpu_features), ctx))
           /\ last' = [op |-> "pre_finish", pre |-> ctx, blocks |-> <<a>>,
                      n |-> Len(updates)]
           /\ f_calls' = Append(f_calls,
                 [Xi |-> ctx'.Xi, cpu_features |-> ctx.cpu_features])
    /\ gpc' = "finalized"
    /\ UNCHANGED <<target_arch, gkey, aad, hashed>>
    /\ UNCHANGED <<profile, word_size, ctrVars>>

(***************************************************************************)
(* Specifications.                                                         *)
(***************************************************************************)
Keys == {[id |-> "K128", rounds |-> 10], [id |-> "K256", rounds |-> 14]}

Nonces == {[i \in 1..12 |-> 16 * i]}

\* Low 32 bits of the starting counters: small ones, one next to a carry
\* between the limbs, and the ones within two batches of 2^32.
StartCounters ==
    {[h |-> 0, l |-> 1], [h |-> 0, l |-> LIMB - 2]}
    \cup {[h |-> LIMB - 1, l |-> LIMB - d] : d \in 1..(MaxBlocks + 1)}

Offsets == {0, 5, BLOCK_LEN}

GcmIdle ==
    /\ gkey = NoKey
    /\ ctx = NoCtx
    /\ gpc = "nokey"
    /\ aad = [len |-> <<>>, bytes |-> <<>>, in_out_len |-> <<>>]
    /\ hashed = 0
    /\ updates = <<>>
    /\ last = NoLast
    /\ f_calls = <<>>

CtrIdle ==
    /\ pc = "idle"
    /\ phase = 0
    /\ lo = 0
    /\ hi = 0
    /\ initial_ctr = <<>>
    /\ ctr = [h |-> 0, l |-> 0]
    /\ entry = [counter |-> <<>>, buf |-> <<>>, blocks |-> 0, lo |-> 0]
    /\ batches = <<>>
    /\ incs = 0
    /\ why = ""

InitCtr ==
    /\ profile \in {"debug", "release"}
    /\ word_size \in {4, 8}
    /\ key \in Keys
    /\ total \in 0..MaxBlocks
    /\ split \in 0..total
    /\ src \in Offsets
    /\ buf = [i \in 1..(src + BLOCK_LEN * total) |-> PlainCell(i)]
    /\ \E n \in Nonces, c \in StartCounters : counter = n \o u32_to_be_bytes(c)
    /\ start = counter
    /\ CtrIdle
    /\ target_arch = "other"
    /\ GcmIdle

NextCtr32 == Enter \/ Batch

SpecCtr == InitCtr /\ [][NextCtr32]_vars

InitGcm ==
    /\ profile = "release"
    /\ word_size = 8
    /\ key = [id |-> "K128", rounds |-> 10]
    /\ total = 0
    /\ split = 0
    /\ src = 0
    /\ buf = <<>>
    /\ counter = [i \in 1..BLOCK_LEN |-> 0]
    /\ start = counter
    /\ CtrIdle
    /\ target_arch \in Archs
    /\ GcmIdle

NextGcm == KeyNew \/ ContextNew \/ UpdateBlock \/ UpdateBlocks \/ PreFinish

SpecGcm == InitGcm /\ [][NextGcm]_vars

(***************************************************************************)
(* Properties of ctr32_encrypt_within (checked under SpecCtr).             *)
(***************************************************************************)
CallEnded == phase >= 1 /\ pc \in {"done", "panic"}

Low32(c) == u32_from_be_bytes(SubSeq(c, 13, 16))

\* The counter block of block j of a call entered with Counter c: the
\* upper 96 bits of c, then big-endian (low32(c) + j) mod 2^32.
CtrBlock(c, j) == SubSeq(c, 1, 12) \o u32_to_be_bytes(U32Sum(Low32(c), j).val)

\* The buffer a call entered with buffer b0, Counter c and in_out starting
\* at offset w must leave after n blocks.
Encrypted(b0, c, w, n) ==
    [p \in 1..Len(b0) |->
        IF p > w /\ p <= w + BLOCK_LEN * n
        THEN LET j == (p - w - 1) \div BLOCK_LEN
                 at == ((p - w - 1) % BLOCK_LEN) + 1
             IN  XorCell(b0[p + src], AES(key, CtrBlock(c, j)), at)
        ELSE b0[p]]

\* C1: a call over N >= 1 whole blocks returns with data block j, for every
\* j < N, replaced by its xor with AES_K(counter block j), where counter
\* block j is the entry Counter with its low 32 bits set to low32 + j, and
\* with nothing else touched.
C1_EveryBlockXoredWithItsCounter ==
    (CallEnded /\ entry.blocks >= 1) =>
        /\ pc = "done"
        /\ buf = Encrypted(entry.buf, entry.counter, entry.lo, entry.blocks)

\* C2: a call over N blocks advances the caller's Counter once, by N, and
\* does so before the first batch is encrypted; every lane of every batch
\* is derived from the Counter the call was entered with.  With N = 0 the
\* Counter and the buffer are left as they were.
C2_CounterAdvancedOnceBeforeBatches ==
    (phase >= 1) =>
        /\ (entry.blocks = 0) =>
              /\ pc = "done"
              /\ counter = entry.counter
              /\ buf = entry.buf
              /\ incs = 0
              /\ batches = <<>>
        /\ (entry.blocks >= 1) =>
              /\ incs = 1
              /\ counter = CtrBlock(entry.counter, entry.blocks)
              /\ initial_ctr = entry.counter
              /\ \A i \in 1..Len(batches) :
                    /\ batches[i].counter = counter
                    /\ \A lane \in 1..BATCH_SIZE :
                          batches[i].ivs[lane] =
                             CtrBlock(entry.counter, BATCH_SIZE * (i - 1) + lane - 1)

\* A call over at least one block is in its loop or past it, with the
\* first batch encrypted.
C2_Witness ==
    /\ phase >= 1
    /\ entry.blocks > BATCH_SIZE
    /\ Len(batches) >= 2
    /\ pc = "done"
    /\ counter # entry.counter

\* C3: blocks [0,split) with Counter C, then blocks [split,N) with the
\* Counter the first call left, end as one call over the N blocks with
\* Counter C ends: same buffer, same Counter, and returning alike.
SplitRunEnded ==
    \/ phase = 2 /\ pc \in {"done", "panic"}
    \/ phase = 1 /\ pc = "panic"

OneCall ==
    ctr32_encrypt_within([i \in 1..Len(buf) |-> PlainCell(i)], start, 0, Len(buf))

C3_SplitEqualsOneCall ==
    SplitRunEnded =>
        /\ buf = OneCall.buf
        /\ counter = OneCall.counter
        /\ pc = OneCall.pc

\* Some lane the loop computes for N blocks, or the advance by N itself,
\* reaches 2^32.
LanesComputed(n) == BATCH_SIZE * (n \div BATCH_SIZE + 1)

ReachesWrap(c, n) ==
    \/ U32Sum(Low32(c), n).over
    \/ U32Sum(Low32(c), LanesComputed(n) - 1).over

\* C8: when low32 + N, or low32 + a lane index (a lane of a partial batch
\* that holds no block included), reaches 2^32, the call still returns, and
\* block j was paired with low 32 bits (low32 + j) mod 2^32 under the
\* unchanged upper 96 bits.
C8_OverflowWrapsSilently ==
    (CallEnded /\ entry.blocks >= 1 /\ ReachesWrap(entry.counter, entry.blocks)) =>
        /\ pc = "done"
        /\ buf = Encrypted(entry.buf, entry.counter, entry.lo, entry.blocks)
        /\ counter = CtrBlock(entry.counter, entry.blocks)

\* C10: a call over N >= 1 blocks ends after N div BATCH_SIZE + 1 batch
\* encryptions, all but the last of BATCH_SIZE blocks, the last of
\* N mod BATCH_SIZE; no batch exceeds BATCH_SIZE and no slice is out of
\* bounds.
C10_BatchCount ==
    (CallEnded /\ entry.blocks >= 1) =>
        /\ pc = "done"
        /\ Len(batches) = entry.blocks \div BATCH_SIZE + 1
        /\ \A i \in 1..(Len(batches) - 1) : batches[i].todo = BATCH_SIZE
        /\ batches[Len(batches)].todo = entry.blocks % BATCH_SIZE
        /\ \A i \in 1..Len(batches) :
              /\ batches[i].todo <= BATCH_SIZE
              /\ batches[i].lo + src + BLOCK_LEN * batches[i].todo <= hi

(***************************************************************************)
(* Properties of the GHASH context (checked under SpecGcm).                *)
(***************************************************************************)
Constructed == gpc \in {"updating", "finalized"}

\* 2^61 bytes and more have no 64-bit bit length.
AadTooLong == aad.len[1] >= 8192

\* C4 (as stated): Context::new fails exactly when in_out_len exceeds
\* MAX_IN_OUT_LEN, whatever the associated data, and then without any hash
\* update.
C4_ErrIffInOutLenExceedsMax ==
    /\ (gpc = "err") => (U64Gt(aad.in_out_len, MAX_IN_OUT_LEN) /\ updates = <<>>)
    /\ Constructed => ~U64Gt(aad.in_out_len, MAX_IN_OUT_LEN)

\* C4 (amended): Context::new fails exactly when in_out_len exceeds
\* MAX_IN_OUT_LEN or the bit length of the associated data does not fit 64
\* bits; it succeeds at in_out_len = MAX_IN_OUT_LEN otherwise, and a
\* failure makes no hash update.
C4_ErrIffTooLong ==
    /\ (gpc = "err") =>
          /\ U64Gt(aad.in_out_len, MAX_IN_OUT_LEN) \/ AadTooLong
          /\ updates = <<>>
          /\ ctx = NoCtx
    /\ Constructed =>
          /\ ~U64Gt(aad.in_out_len, MAX_IN_OUT_LEN)
          /\ ~AadTooLong

C4_Witness ==
    /\ gpc = "updating"
    /\ aad.in_out_len = MAX_IN_OUT_LEN
    /\ Len(aad.bytes) > BLOCK_LEN

C6_BackendOfTableServesUpdates ==
    \A i \in 1..Len(updates) :
        Backend(updates[i].routine) = Backend(updates[i].table)

\* The big-endian 64-bit bit count of a byte count below 2^16.
BE64Bits(n) == <<0, 0, 0, 0, 0, (8 * n) \div LIMB, ((8 * n) \div 256) % 256, (8 * n) % 256>>

\* The length block of the inputs Context::new was given.
ExpectedLengthBlock ==
    BE64Bits(Len(aad.bytes)) \o
    (IF aad.in_out_len = <<0, 0, 0, BLOCK_LEN>> THEN BE64Bits(BLOCK_LEN)
     ELSE IF PointerWidth = 32 THEN <<0, 0, 0, 7, 255, 255, 255, 248>>
     ELSE <<0, 0, 0, 127, 255, 255, 255, 0>>)

\* C7: pre_finish makes one more single-block update, of the block
\* BE64(8 * AAD bytes) ++ BE64(8 * in_out_len), and calls the function once,
\* with the Xi that update left and the context's feature snapshot.
C7_PreFinishFoldsLengthsOnce ==
    (gpc = "finalized") =>
        /\ Len(updates) = last.n + 1
        /\ updates[Len(updates)].op = "update_block"
        /\ updates[Len(updates)].blocks = <<ExpectedLengthBlock>>
        /\ ctx \in update_block(last.pre, ExpectedLengthBlock)
        /\ Len(f_calls) = 1
        /\ f_calls[1].Xi = ctx.Xi
        /\ f_calls[1].cpu_features = ctx.cpu_features

C7_Witness ==
    /\ gpc = "finalized"
    /\ hashed = 2
    /\ Len(aad.bytes) = 3
    /\ aad.in_out_len = MAX_IN_OUT_LEN
    /\ Len(f_calls) = 1

\* Chunk i of the associated data, zero-padded on the right.
ExpectedAadBlock(i) ==
    [p \in 1..BLOCK_LEN |->
        IF BLOCK_LEN * (i - 1) + p <= Len(aad.bytes)
        THEN aad.bytes[BLOCK_LEN * (i - 1) + p] ELSE 0]

FreshlyConstructed == gpc = "updating" /\ last.op = "none"

\* C9: Context::new over L bytes of associated data starts from the zero
\* block and makes ceil(L / 16) single-block updates, in order, of the
\* zero-padded chunks; with L = 0 it makes none and Xi is the zero block.
C9_AadFoldedChunkwise ==
    FreshlyConstructed =>
        LET L == Len(aad.bytes)
            n == (L + BLOCK_LEN - 1) \div BLOCK_LEN
        IN  /\ Len(updates) = n
            /\ \A i \in 1..n :
                  /\ updates[i].op = "update_block"
                  /\ updates[i].blocks = <<ExpectedAadBlock(i)>>
            /\ (L = 0) => ctx.Xi = [k |-> "block", v |-> [i \in 1..16 |-> 0]]
            /\ (n >= 1 /\ Backend(UpdateBlockRoutine(ctx.cpu_features))
                            = Backend(ctx.Htable.init)) =>
                  ctx.Xi = GhashFold([k |-> "block", v |-> [i \in 1..16 |-> 0]],
                                     ctx.Htable.h,
                                     [i \in 1..n |-> ExpectedAadBlock(i)], 1)

C9_Witness ==
    /\ FreshlyConstructed
    /\ Len(aad.bytes) = BLOCK_LEN + 1
    /\ Len(updates) = 2

====
